---- MODULE Spec2Model ----
(***************************************************************************)
(* Model of app_new1.py: the text-to-record parser (format_report), the    *)
(* two renderers (generate_pdf_report, format_report_text) and the upload  *)
(* handler process_uploaded_files that chains them.                        *)
(*                                                                         *)
(* Text is a sequence of tokens.  A token is a whitespace character (" ",  *)
(* "\n"), the colon, a marker word of the parser or a plain word ("a",     *)
(* "b").  The string methods of the source (split, strip, replace, in) are *)
(* the operators Split, Strip, Replace and Contains below, computed as     *)
(* Python computes them on the token sequence.                             *)
(***************************************************************************)
EXTENDS Integers, Sequences, FiniteSets, TLC

\* ---- bounds of the model ----
MaxClock == 1
MaxLen == 3
MaxParas == 2

\* ---- Python's None and a present value ----
None == <<>>
Some(v) == <<v>>
Val(o) == o[1]

\* ---- text ----
NL == "\n"
SP == " "
Whitespace == {SP, NL}
MarkerWords == {"Symptoms", "Causes", "Treatment", "Prevention"}
Alphabet == MarkerWords \cup {"Disease Name", "Additional Notes", ":", NL, SP, "a", "b"}

\* the paragraph separator of split('\n\n') and the line separator of split('\n')
BlankLine == <<NL, NL>>
LineBreak == <<NL>>

\* the label "Word:" as written in the source's replace() calls
Label(word) == <<word, ":">>

\* str.find: the least index where sub occurs in s, 0 when it does not occur
Find(s, sub) ==
  LET hits == {k \in 1..(Len(s) - Len(sub) + 1) : SubSeq(s, k, k + Len(sub) - 1) = sub}
  IN IF hits = {} THEN 0 ELSE CHOOSE k \in hits : \A j \in hits : k <= j

\* the Python test `sub in s`
Contains(s, sub) == Find(s, sub) # 0

\* str.split(sep): left-to-right, non-overlapping; always at least one piece
RECURSIVE Split(_, _)
Split(s, sep) ==
  LET k == Find(s, sep)
  IN IF k = 0 THEN <<s>>
     ELSE <<SubSeq(s, 1, k - 1)>> \o Split(SubSeq(s, k + Len(sep), Len(s)), sep)

\* str.replace(old, ""): every left-to-right non-overlapping occurrence removed
RECURSIVE Replace(_, _)
Replace(s, old) ==
  LET k == Find(s, old)
  IN IF k = 0 THEN s
     ELSE SubSeq(s, 1, k - 1) \o Replace(SubSeq(s, k + Len(old), Len(s)), old)

\* str.strip(): leading and trailing whitespace removed
RECURSIVE LStrip(_)
LStrip(s) == IF s # <<>> /\ Head(s) \in Whitespace THEN LStrip(Tail(s)) ELSE s

RECURSIVE RStrip(_)
RStrip(s) ==
  IF s # <<>> /\ s[Len(s)] \in Whitespace THEN RStrip(SubSeq(s, 1, Len(s) - 1)) ELSE s

Strip(s) == RStrip(LStrip(s))

\* ---- format_report ----
EmptyAnalysis ==
  [symptoms |-> <<>>, causes |-> <<>>, treatment |-> <<>>, prevention |-> <<>>,
   additional_notes |-> <<>>]

\* first-wins variant of the loop body: a field once set is kept
ParseSectionKeepFirst(analysis, section) ==
  IF Contains(section, <<"Symptoms">>) THEN
    IF analysis.symptoms # <<>> THEN analysis
    ELSE [analysis EXCEPT !.symptoms = Strip(Replace(section, Label("Symptoms")))]
  ELSE IF Contains(section, <<"Causes">>) THEN
    IF analysis.causes # <<>> THEN analysis
    ELSE [analysis EXCEPT !.causes = Strip(Replace(section, Label("Causes")))]
  ELSE IF Contains(section, <<"Treatment">>) THEN
    IF analysis.treatment # <<>> THEN analysis
    ELSE [analysis EXCEPT !.treatment = Strip(Replace(section, Label("Treatment")))]
  ELSE IF Contains(section, <<"Prevention">>) THEN
    IF analysis.prevention # <<>> THEN analysis
    ELSE [analysis EXCEPT !.prevention = Strip(Replace(section, Label("Prevention")))]
  ELSE [analysis EXCEPT !.additional_notes = @ \o section \o <<NL>>]

\* variant of the loop body that tests the markers in the reverse order
ParseSectionReversed(analysis, section) ==
  IF Contains(section, <<"Prevention">>) THEN
    [analysis EXCEPT !.prevention = Strip(Replace(section, Label("Prevention")))]
  ELSE IF Contains(section, <<"Treatment">>) THEN
    [analysis EXCEPT !.treatment = Strip(Replace(section, Label("Treatment")))]
  ELSE IF Contains(section, <<"Causes">>) THEN
    [analysis EXCEPT !.causes = Strip(Replace(section, Label("Causes")))]
  ELSE IF Contains(section, <<"Symptoms">>) THEN
    [analysis EXCEPT !.symptoms = Strip(Replace(section, Label("Symptoms")))]
  ELSE [analysis EXCEPT !.additional_notes = @ \o section \o <<NL>>]

\* variant of the loop body that stores the section without strip()
ParseSectionNoStrip(analysis, section) ==
  IF Contains(section, <<"Symptoms">>) THEN
    [analysis EXCEPT !.symptoms = Replace(section, Label("Symptoms"))]
  ELSE IF Contains(section, <<"Causes">>) THEN
    [analysis EXCEPT !.causes = Replace(section, Label("Causes"))]
  ELSE IF Contains(section, <<"Treatment">>) THEN
    [analysis EXCEPT !.treatment = Replace(section, Label("Treatment"))]
  ELSE IF Contains(section, <<"Prevention">>) THEN
    [analysis EXCEPT !.prevention = Replace(section, Label("Prevention"))]
  ELSE [analysis EXCEPT !.additional_notes = @ \o section \o <<NL>>]

\* variant of the loop body that joins the notes with a leading separator
ParseSectionJoinNotes(analysis, section) ==
  IF Contains(section, <<"Symptoms">>) THEN
    [analysis EXCEPT !.symptoms = Strip(Replace(section, Label("Symptoms")))]
  ELSE IF Contains(section, <<"Causes">>) THEN
    [analysis EXCEPT !.causes = Strip(Replace(section, Label("Causes")))]
  ELSE IF Contains(section, <<"Treatment">>) THEN
    [analysis EXCEPT !.treatment = Strip(Replace(section, Label("Treatment")))]
  ELSE IF Contains(section, <<"Prevention">>) THEN
    [analysis EXCEPT !.prevention = Strip(Replace(section, Label("Prevention")))]
  ELSE [analysis EXCEPT !.additional_notes =
          IF @ = <<>> THEN section ELSE @ \o <<NL>> \o section]

\* the body of the loop `for section in sections` (lines 72-81)
ParseSection(analysis, section) ==
  IF Contains(section, <<"Symptoms">>) THEN
    [analysis EXCEPT !.symptoms = Strip(Replace(section, Label("Symptoms")))]
  ELSE IF Contains(section, <<"Causes">>) THEN
    [analysis EXCEPT !.causes = Strip(Replace(section, Label("Causes")))]
  ELSE IF Contains(section, <<"Treatment">>) THEN
    [analysis EXCEPT !.treatment = Strip(Replace(section, Label("Treatment")))]
  ELSE IF Contains(section, <<"Prevention">>) THEN
    [analysis EXCEPT !.prevention = Strip(Replace(section, Label("Prevention")))]
  ELSE [analysis EXCEPT !.additional_notes = @ \o section \o <<NL>>]

\* the loop of lines 71-81 run over a list of sections
RECURSIVE ParseSections(_, _)
ParseSections(analysis, sections) ==
  IF sections = <<>> THEN analysis
  ELSE ParseSections(ParseSection(analysis, Head(sections)), Tail(sections))

\* variant that leaves the first paragraph (the name line) out of the loop
format_report_skip_first(disease_name, analysis_text, now) ==
  [disease_name |-> disease_name,
   timestamp |-> now,
   analysis |-> ParseSections(EmptyAnalysis, Tail(Split(analysis_text, BlankLine)))]

\* format_report(disease_name, analysis_text); now is the value of datetime.now()
format_report(disease_name, analysis_text, now) ==
  [disease_name |-> disease_name,
   timestamp |-> now,
   analysis |-> ParseSections(EmptyAnalysis, Split(analysis_text, BlankLine))]

\* ---- generate_pdf_report ----
\* the flowables appended to `story` (lines 118-185), spacers left out
PdfStory(report_data) ==
  <<  <<"title", <<"PLANT DISEASE ANALYSIS REPORT">> >>,
      <<"table", << <<"Disease Name:", report_data.disease_name>>,
                    <<"Analysis Date:", report_data.timestamp>> >> >>,
      <<"Symptoms", report_data.analysis.symptoms>>,
      <<"Causes", report_data.analysis.causes>>,
      <<"Treatment", report_data.analysis.treatment>>,
      <<"Prevention", report_data.analysis.prevention>> >>
  \o (IF report_data.analysis.additional_notes # <<>>
      THEN << <<"Additional Notes", report_data.analysis.additional_notes>> >>
      ELSE <<>>)
  \o << <<"disclaimer", <<"Disclaimer">> >> >>

\* the filename of line 88: the timestamp at one-second resolution
PdfFilename(now) == now

\* ---- format_report_text ----
\* one markup block: its css class, its report-title ("" when it has none), its text
Block(class, title, content) == [class |-> class, title |-> title, content |-> content]

\* variant that tests the bare words of the parser instead of the labels
FormatSectionBareWords(section) ==
  IF Contains(section, <<"Disease Name">>) THEN
    Block("disease-name", "", Strip(Replace(section, Label("Disease Name"))))
  ELSE IF Contains(section, <<"Symptoms">>) THEN
    Block("report-section", "Symptoms", Strip(Replace(section, Label("Symptoms"))))
  ELSE IF Contains(section, <<"Causes">>) THEN
    Block("report-section", "Causes", Strip(Replace(section, Label("Causes"))))
  ELSE IF Contains(section, <<"Treatment">>) THEN
    Block("report-section", "Treatment", Strip(Replace(section, Label("Treatment"))))
  ELSE IF Contains(section, <<"Prevention">>) THEN
    Block("report-section", "Prevention", Strip(Replace(section, Label("Prevention"))))
  ELSE IF Contains(section, <<"Additional Notes">>) THEN
    Block("report-section", "Additional Notes",
          Strip(Replace(section, Label("Additional Notes"))))
  ELSE Block("report-section", "", Strip(section))

\* the body of the loop of lines 196-256
FormatSection(section) ==
  IF Contains(section, Label("Disease Name")) THEN
    Block("disease-name", "", Strip(Replace(section, Label("Disease Name"))))
  ELSE IF Contains(section, Label("Symptoms")) THEN
    Block("report-section", "Symptoms", Strip(Replace(section, Label("Symptoms"))))
  ELSE IF Contains(section, Label("Causes")) THEN
    Block("report-section", "Causes", Strip(Replace(section, Label("Causes"))))
  ELSE IF Contains(section, Label("Treatment")) THEN
    Block("report-section", "Treatment", Strip(Replace(section, Label("Treatment"))))
  ELSE IF Contains(section, Label("Prevention")) THEN
    Block("report-section", "Prevention", Strip(Replace(section, Label("Prevention"))))
  ELSE IF Contains(section, Label("Additional Notes")) THEN
    Block("report-section", "Additional Notes",
          Strip(Replace(section, Label("Additional Notes"))))
  ELSE Block("report-section", "", Strip(section))

\* format_report_text(response): the blocks in paragraph order
format_report_text(response) ==
  LET sections == Split(response, BlankLine)
  IN [i \in 1..Len(sections) |-> FormatSection(sections[i])]

\* ---- process_uploaded_files ----
\* first-paragraph variant of the name extraction
DiseaseNameOfParagraph(response) == Strip(Split(response, BlankLine)[1])

\* line 265: the first line of the response, stripped
DiseaseName(response) == Strip(Split(response, LineBreak)[1])

\* ---- inputs ----
RECURSIVE Join(_, _)
Join(paras, sep) ==
  IF Len(paras) = 0 THEN <<>>
  ELSE IF Len(paras) = 1 THEN paras[1]
  ELSE paras[1] \o sep \o Join(Tail(paras), sep)

\* the orders in which the four labelled paragraphs can come
Perms == {p \in [1..4 -> MarkerWords] : \A i, j \in 1..4 : p[i] = p[j] => i = j}

\* paragraph bodies free of marker words and of blank lines
Bodies == { <<NL, "a">>, <<SP, "b", SP>>, <<"a", NL, "b">> }

\* the text of four labelled paragraphs in the order p, body[w] under the label of w
WellFormedText(p, body) ==
  Join([i \in 1..4 |-> Label(p[i]) \o body[p[i]]], BlankLine)

WellFormedCases ==
  {[perm |-> p, body |-> b, text |-> WellFormedText(p, b)] :
     p \in Perms, b \in [MarkerWords -> Bodies]}

WellFormedTexts == {c.text : c \in WellFormedCases}

\* every text of at most MaxLen tokens
ShortTexts == UNION {[1..n -> Alphabet] : n \in 0..MaxLen}

\* paragraphs with one label, with a marker word in prose, with several marker
\* words in either order, and with none
ParaPool ==
  { <<"Symptoms", ":", NL, "a">>, <<"Symptoms", ":", SP, "b">>,
    <<"a", SP, "Causes", SP, "b">>, <<"Causes", ":", NL, "b">>,
    <<"Treatment", ":", "a">>, <<"Prevention", ":", NL, "a", NL>>,
    <<"Causes", ":", "a", "Symptoms">>, <<"Prevention", SP, "Treatment", ":", "b">>,
    <<"Prevention", ":", "Symptoms", ":", "a">>,
    <<"a">>, <<SP, "b", NL, "a">>, <<"Additional Notes", ":", NL, "b">> }

\* texts of one to MaxParas paragraphs of the pool
ParaTexts ==
  UNION {{Join(ps, BlankLine) : ps \in [1..n -> ParaPool]} : n \in 1..MaxParas}

\* first lines of a response that hold no marker word of the parser
NameLines == { <<"a", SP, "b">>, <<SP, "a", SP>>, <<"Disease Name", ":", SP, "a">> }

\* single paragraphs that hold no marker word of the parser
NoteParas == { <<"b">>, <<"b", NL, "a", SP>> }

SomeOrders ==
  { <<"Symptoms", "Causes", "Treatment", "Prevention">>,
    <<"Prevention", "Symptoms", "Treatment", "Causes">> }

SomeBodies ==
  { [w \in MarkerWords |-> <<NL, "a">>],
    [w \in MarkerWords |-> IF w \in {"Symptoms", "Treatment"} THEN <<SP, "b", SP>>
                           ELSE <<"a", NL, "b">>] }

\* a name line, a blank line, the four labelled paragraphs
NamedFourCases ==
  {[name |-> n, text |-> n \o BlankLine \o WellFormedText(p, b)] :
     n \in NameLines, p \in SomeOrders, b \in SomeBodies}

\* a name line, a blank line, one paragraph without marker words
NamedNoteCases ==
  {[name |-> n, para |-> q, text |-> n \o BlankLine \o q] :
     n \in NameLines, q \in NoteParas}

\* the answers the remote model gives in this model
Responses ==
  {c.text : c \in NamedFourCases} \cup {c.text : c \in NamedNoteCases}
  \cup { <<>>, <<"a">>, <<NL, "a">>, <<SP, "a", NL, "b">>,
         <<"Symptoms", ":", SP, "a", NL, "b">>, <<"a", SP, NL, NL, "Causes", ":", "b">> }

\* the texts format_report is run on
ParseTexts == ShortTexts \cup ParaTexts \cup WellFormedTexts \cup Responses

\* the disease_name arguments format_report is run with
ParseNames == { <<>>, <<"a", SP, "b">> }

\* the concurrent invocations of the upload handler
Requests == {"r1", "r2"}

\* image paths that exist on disk
ExistingImages == {"leaf.jpg"}

\* the `files` argument of an upload
Uploads == { <<>>, <<"leaf.jpg">>, <<"gone.jpg">> }

\* ---- state ----
VARIABLES
  clock,           \* datetime.now() in whole seconds
  tmpdir,          \* the temp directory: filename -> document written there
  pc,              \* per invocation: where process_uploaded_files stands
  files,           \* per invocation: the files argument
  response,        \* per invocation: the model's answer
  report_data,     \* per invocation: the record of format_report
  report_file,     \* per invocation: the filename of generate_pdf_report
  formatted_text,  \* per invocation: the blocks of format_report_text
  result,          \* per invocation: the returned triple
  error,           \* per invocation: the exception that left the handler
  calls,           \* per invocation: the functions entered, in order
  analysis_text,   \* format_report alone: its text argument
  disease_name,    \* format_report alone: its name argument
  sections,        \* format_report alone: the split text
  section_idx,     \* format_report alone: the loop position
  report,          \* format_report alone: the record being built
  formatted,       \* format_report_text alone: the blocks it returned
  fpc              \* format_report alone: where the function stands

pipeline_vars ==
  <<clock, tmpdir, pc, files, response, report_data, report_file, formatted_text,
    result, error, calls>>

parser_vars ==
  <<analysis_text, disease_name, sections, section_idx, report, formatted, fpc>>

vars == <<pipeline_vars, parser_vars>>

Filenames == {PdfFilename(t) : t \in 0..MaxClock}

PipelineIdle ==
  /\ tmpdir = [f \in Filenames |-> None]
  /\ pc = [r \in Requests |-> "idle"]
  /\ files = [r \in Requests |-> <<>>]
  /\ response = [r \in Requests |-> None]
  /\ report_data = [r \in Requests |-> None]
  /\ report_file = [r \in Requests |-> None]
  /\ formatted_text = [r \in Requests |-> None]
  /\ result = [r \in Requests |-> None]
  /\ error = [r \in Requests |-> "none"]
  /\ calls = [r \in Requests |-> <<>>]

ParserIdle ==
  /\ analysis_text = <<>>
  /\ disease_name = <<>>
  /\ sections = <<>>
  /\ section_idx = 0
  /\ report = None
  /\ formatted = None
  /\ fpc = "off"

\* the state before any upload
Init ==
  /\ clock = 0
  /\ PipelineIdle
  /\ ParserIdle

\* ---- process_uploaded_files, one invocation r ----
Enter(r, f) == calls' = [calls EXCEPT ![r] = @ \o f]

Raise(r, e) ==
  /\ error' = [error EXCEPT ![r] = e]
  /\ pc' = [pc EXCEPT ![r] = "raised"]

\* lines 260-262 and 273: the upload arrives; without files the handler returns
Upload(r) ==
  /\ pc[r] = "idle"
  /\ \E f \in Uploads :
       /\ files' = [files EXCEPT ![r] = f]
       /\ IF f = <<>>
          THEN /\ result' = [result EXCEPT ![r] =
                    Some([file_path |-> None, formatted_text |-> None,
                          report_file |-> None])]
               /\ pc' = [pc EXCEPT ![r] = "returned"]
          ELSE /\ pc' = [pc EXCEPT ![r] = "generate"]
               /\ UNCHANGED result
  /\ UNCHANGED <<clock, tmpdir, response, report_data, report_file, formatted_text,
                 error, calls>>
  /\ UNCHANGED parser_vars

\* variant that sends the request to the model before it looks at the path
GenerateGeminiResponseUnchecked(r) ==
  /\ pc[r] = "generate"
  /\ \/ /\ files[r][1] \notin ExistingImages
        /\ Enter(r, <<"generate_content", "read_image_data">>)
        /\ Raise(r, "FileNotFoundError")
        /\ UNCHANGED response
     \/ /\ files[r][1] \in ExistingImages
        /\ Enter(r, <<"read_image_data", "generate_content">>)
        /\ Raise(r, "GenerationFailed")
        /\ UNCHANGED response
     \/ /\ files[r][1] \in ExistingImages
        /\ Enter(r, <<"read_image_data", "generate_content">>)
        /\ \E t \in Responses : response' = [response EXCEPT ![r] = Some(t)]
        /\ pc' = [pc EXCEPT ![r] = "format"]
        /\ UNCHANGED error
  /\ UNCHANGED <<clock, tmpdir, files, report_data, report_file, formatted_text, result>>
  /\ UNCHANGED parser_vars

\* line 263, generate_gemini_response (lines 42-51): read_image_data raises when
\* the path does not exist; model.generate_content raises or answers
GenerateGeminiResponse(r) ==
  /\ pc[r] = "generate"
  /\ \/ /\ files[r][1] \notin ExistingImages
        /\ Enter(r, <<"read_image_data">>)
        /\ Raise(r, "FileNotFoundError")
        /\ UNCHANGED response
     \/ /\ files[r][1] \in ExistingImages
        /\ Enter(r, <<"read_image_data", "generate_content">>)
        /\ Raise(r, "GenerationFailed")
        /\ UNCHANGED response
     \/ /\ files[r][1] \in ExistingImages
        /\ Enter(r, <<"read_image_data", "generate_content">>)
        /\ \E t \in Responses : response' = [response EXCEPT ![r] = Some(t)]
        /\ pc' = [pc EXCEPT ![r] = "format"]
        /\ UNCHANGED error
  /\ UNCHANGED <<clock, tmpdir, files, report_data, report_file, formatted_text, result>>
  /\ UNCHANGED parser_vars

\* lines 265-267: the name is taken from the first line, the record is built
FormatReport(r) ==
  /\ pc[r] = "format"
  /\ Enter(r, <<"format_report">>)
  /\ report_data' = [report_data EXCEPT ![r] =
        Some(format_report(DiseaseName(Val(response[r])), Val(response[r]), clock))]
  /\ pc' = [pc EXCEPT ![r] = "pdf"]
  /\ UNCHANGED <<clock, tmpdir, files, response, report_file, formatted_text, result,
                 error>>
  /\ UNCHANGED parser_vars

\* line 269, generate_pdf_report (lines 85-189): the document is written under the
\* name of the current second, or doc.build raises
GeneratePdfReport(r) ==
  /\ pc[r] = "pdf"
  /\ Enter(r, <<"generate_pdf_report">>)
  /\ \/ /\ Raise(r, "IOFailure")
        /\ UNCHANGED <<tmpdir, report_file>>
     \/ /\ tmpdir' = [tmpdir EXCEPT ![PdfFilename(clock)] =
              Some(PdfStory(Val(report_data[r])))]
        /\ report_file' = [report_file EXCEPT ![r] = Some(PdfFilename(clock))]
        /\ pc' = [pc EXCEPT ![r] = "html"]
        /\ UNCHANGED error
  /\ UNCHANGED <<clock, files, response, report_data, formatted_text, result>>
  /\ UNCHANGED parser_vars

\* lines 271-272: the display blocks are built and the triple is returned
FormatReportText(r) ==
  /\ pc[r] = "html"
  /\ Enter(r, <<"format_report_text">>)
  /\ formatted_text' = [formatted_text EXCEPT ![r] =
        Some(format_report_text(Val(response[r])))]
  /\ result' = [result EXCEPT ![r] =
        Some([file_path |-> Some(files[r][1]),
              formatted_text |-> Some(format_report_text(Val(response[r]))),
              report_file |-> report_file[r]])]
  /\ pc' = [pc EXCEPT ![r] = "returned"]
  /\ UNCHANGED <<clock, tmpdir, files, response, report_data, report_file, error>>
  /\ UNCHANGED parser_vars

\* a second passes
Tick ==
  /\ clock < MaxClock
  /\ clock' = clock + 1
  /\ UNCHANGED <<tmpdir, pc, files, response, report_data, report_file, formatted_text,
                 result, error, calls>>
  /\ UNCHANGED parser_vars

Next ==
  \/ \E r \in Requests : Upload(r)
  \/ \E r \in Requests : GenerateGeminiResponse(r)
  \/ \E r \in Requests : FormatReport(r)
  \/ \E r \in Requests : GeneratePdfReport(r)
  \/ \E r \in Requests : FormatReportText(r)
  \/ Tick

Spec == Init /\ [][Next]_vars

\* ---- format_report alone, one loop iteration per step ----
InitParse ==
  /\ clock \in 0..MaxClock
  /\ PipelineIdle
  /\ analysis_text \in ParseTexts
  /\ disease_name \in ParseNames
  /\ sections = <<>>
  /\ section_idx = 0
  /\ report = None
  /\ formatted = None
  /\ fpc = "call"

\* lines 55-68: the text is split and the record is created with empty fields
FormatReportBegin ==
  /\ fpc = "call"
  /\ sections' = Split(analysis_text, BlankLine)
  /\ section_idx' = 1
  /\ report' = Some([disease_name |-> disease_name, timestamp |-> clock,
                     analysis |-> EmptyAnalysis])
  /\ fpc' = "loop"
  /\ UNCHANGED <<analysis_text, disease_name, formatted>>
  /\ UNCHANGED pipeline_vars

\* lines 71-81: one iteration of the loop
FormatReportSection ==
  /\ fpc = "loop"
  /\ section_idx <= Len(sections)
  /\ report' = Some([Val(report) EXCEPT
                       !.analysis = ParseSection(@, sections[section_idx])])
  /\ section_idx' = section_idx + 1
  /\ UNCHANGED <<analysis_text, disease_name, sections, formatted, fpc>>
  /\ UNCHANGED pipeline_vars

\* line 83: the loop is over, the record is returned
FormatReportReturn ==
  /\ fpc = "loop"
  /\ section_idx > Len(sections)
  /\ fpc' = "done"
  /\ UNCHANGED <<analysis_text, disease_name, sections, section_idx, report,
                 formatted>>
  /\ UNCHANGED pipeline_vars

NextParse ==
  \/ FormatReportBegin
  \/ FormatReportSection
  \/ FormatReportReturn

SpecParse == InitParse /\ [][NextParse]_vars

\* ---- format_report, then format_report_text on the same text ----
\* (lines 267 and 271 without the document in between)
InitText == InitParse

\* line 271, format_report_text (lines 191-258): the blocks of the text
FormatReportTextCall ==
  /\ fpc = "done"
  /\ formatted' = Some(format_report_text(analysis_text))
  /\ fpc' = "shown"
  /\ UNCHANGED <<analysis_text, disease_name, sections, section_idx, report>>
  /\ UNCHANGED pipeline_vars

NextText ==
  \/ FormatReportBegin
  \/ FormatReportSection
  \/ FormatReportReturn
  \/ FormatReportTextCall

SpecText == InitText /\ [][NextText]_vars

\* ---- properties ----
\* x is y without its leading and trailing whitespace
IsStripOf(x, y) ==
  \E i, j \in 0..Len(y) :
    /\ i + j <= Len(y)
    /\ \A k \in 1..i : y[k] \in Whitespace
    /\ \A k \in (Len(y) - j + 1)..Len(y) : y[k] \in Whitespace
    /\ x = SubSeq(y, i + 1, Len(y) - j)
    /\ x # <<>> => (x[1] \notin Whitespace /\ x[Len(x)] \notin Whitespace)

\* the text before the first line break
FirstLineOf(t) ==
  LET breaks == {i \in 1..Len(t) : t[i] = NL}
  IN IF breaks = {} THEN t
     ELSE SubSeq(t, 1, (CHOOSE i \in breaks : \A j \in breaks : i <= j) - 1)

\* the field of the record that belongs to a marker word
FieldOf(analysis, w) ==
  CASE w = "Symptoms" -> analysis.symptoms
    [] w = "Causes" -> analysis.causes
    [] w = "Treatment" -> analysis.treatment
    [] w = "Prevention" -> analysis.prevention

\* C1: in every record built by process_uploaded_files, disease_name is the
\* first line of the raw response (the text before its first line break)
\* without surrounding whitespace, whatever field that line is classified to.
C1_DiseaseNameIsFirstLine ==
  \A r \in Requests :
    report_data[r] # None =>
      IsStripOf(Val(report_data[r]).disease_name, FirstLineOf(Val(response[r])))

\* a record whose first line was also classified as the Symptoms paragraph
C1_Witness ==
  \E r \in Requests :
    /\ report_data[r] # None
    /\ Val(response[r]) = <<"Symptoms", ":", SP, "a", NL, "b">>
    /\ Val(report_data[r]).disease_name = <<"Symptoms", ":", SP, "a">>
    /\ Val(report_data[r]).analysis.symptoms = <<"a", NL, "b">>

\* C2: for four labelled paragraphs with marker-free bodies, in any of the 24
\* orders, format_report sets each field to the body under its label without
\* surrounding whitespace.
C2_WellFormedAnyOrder ==
  (fpc = "done" /\ analysis_text \in WellFormedTexts) =>
    \A c \in WellFormedCases :
      c.text = analysis_text =>
        \A w \in MarkerWords : IsStripOf(FieldOf(Val(report).analysis, w), c.body[w])

\* Prevention first and Causes last in the text, every field still its own body
C2_Witness ==
  /\ fpc = "done"
  /\ analysis_text =
       WellFormedText(<<"Prevention", "Symptoms", "Treatment", "Causes">>,
                      [w \in MarkerWords |->
                         IF w \in {"Symptoms", "Treatment"} THEN <<SP, "b", SP>>
                         ELSE <<"a", NL, "b">>])
  /\ Val(report).analysis.symptoms = <<"b">>
  /\ Val(report).analysis.treatment = <<"b">>
  /\ Val(report).analysis.causes = <<"a", NL, "b">>
  /\ Val(report).analysis.prevention = <<"a", NL, "b">>
  /\ Val(report).analysis.additional_notes = <<>>

\* C3 as stated: the name paragraph is kept out of additional_notes: with the
\* four labelled paragraphs after it the notes are empty, with one marker-free
\* paragraph after it the notes are that paragraph and a newline.
C3_NameLineNotInNotes ==
  \A r \in Requests :
    report_data[r] # None =>
      /\ \A c \in NamedFourCases :
           c.text = Val(response[r]) =>
             Val(report_data[r]).analysis.additional_notes = <<>>
      /\ \A c \in NamedNoteCases :
           c.text = Val(response[r]) =>
             Val(report_data[r]).analysis.additional_notes = c.para \o <<NL>>

\* C3 amended: a name paragraph without marker words is folded into
\* additional_notes: with the four labelled paragraphs after it the notes are
\* the name line and a newline, with one marker-free paragraph P after it the
\* notes are the name line, a newline, P and a newline.
C3_NameLineInNotes ==
  \A r \in Requests :
    report_data[r] # None =>
      /\ \A c \in NamedFourCases :
           c.text = Val(response[r]) =>
             Val(report_data[r]).analysis.additional_notes = c.name \o <<NL>>
      /\ \A c \in NamedNoteCases :
           c.text = Val(response[r]) =>
             Val(report_data[r]).analysis.additional_notes =
               c.name \o <<NL>> \o c.para \o <<NL>>

\* both shapes of response have been parsed, each by one invocation
C3_Witness ==
  \E r1, r2 \in Requests :
    /\ report_data[r1] # None
    /\ Val(response[r1]) =
         <<"a", SP, "b">> \o BlankLine
         \o WellFormedText(<<"Symptoms", "Causes", "Treatment", "Prevention">>,
                           [w \in MarkerWords |-> <<NL, "a">>])
    /\ Val(report_data[r1]).analysis.additional_notes = <<"a", SP, "b", NL>>
    /\ Val(report_data[r1]).analysis.prevention = <<"a">>
    /\ report_data[r2] # None
    /\ Val(response[r2]) = <<"a", SP, "b", NL, NL, "b">>
    /\ Val(report_data[r2]).analysis.additional_notes = <<"a", SP, "b", NL, "b", NL>>

\* C4 as stated: for the empty text format_report returns a record whose five
\* text fields are all empty.
C4_EmptyTextAllFieldsEmpty ==
  (fpc = "done" /\ analysis_text = <<>>) =>
    /\ report # None
    /\ Val(report).analysis = EmptyAnalysis

\* the fixed order in which the markers are tested
Priority == <<"Symptoms", "Causes", "Treatment", "Prevention">>

\* the marker words that occur in a paragraph, as positions of Priority
MarkersIn(section) ==
  {k \in 1..4 : \E i \in 1..Len(section) : section[i] = Priority[k]}

\* the field a paragraph goes to: the marker word, or "notes" without one
ClassOf(section) ==
  LET present == MarkersIn(section)
  IN IF present = {} THEN "notes"
     ELSE Priority[CHOOSE k \in present : \A j \in present : k <= j]

\* the paragraphs of a list that go to additional_notes, a newline after each
RECURSIVE NotesOf(_)
NotesOf(paras) ==
  IF paras = <<>> THEN <<>>
  ELSE (IF ClassOf(Head(paras)) = "notes" THEN Head(paras) \o <<NL>> ELSE <<>>)
       \o NotesOf(Tail(paras))

\* C5: when several paragraphs go to the same field, the returned field holds
\* the value of the last of them in text order, and additional_notes holds the
\* unmatched paragraphs only, nothing of the overwritten ones.
C5_LastMatchWins ==
  fpc = "done" =>
    \A w \in MarkerWords :
      LET same == {i \in 1..Len(sections) : ClassOf(sections[i]) = w}
      IN Cardinality(same) >= 2 =>
           /\ FieldOf(Val(report).analysis, w) =
                Strip(Replace(sections[CHOOSE i \in same : \A j \in same : j <= i],
                              Label(w)))
           /\ Val(report).analysis.additional_notes = NotesOf(sections)

\* two Symptoms paragraphs with different bodies, the second one kept
C5_Witness ==
  /\ fpc = "done"
  /\ sections = << <<"Symptoms", ":", NL, "a">>, <<"Symptoms", ":", SP, "b">> >>
  /\ Val(report).analysis.symptoms = <<"b">>
  /\ Val(report).analysis.additional_notes = <<>>

\* C6: a loop iteration on a paragraph with more than one marker word sets the
\* field of the marker that comes first in Symptoms > Causes > Treatment >
\* Prevention, wherever the words stand in the paragraph, and changes no other
\* field and not additional_notes.
C6_PriorityOrder ==
  [][(fpc = "loop" /\ section_idx <= Len(sections)
        /\ Cardinality(MarkersIn(sections[section_idx])) >= 2) =>
       LET section == sections[section_idx]
           first == Priority[CHOOSE k \in MarkersIn(section) :
                               \A j \in MarkersIn(section) : k <= j]
           before == Val(report).analysis
           after == Val(report').analysis
       IN /\ FieldOf(after, first) = Strip(Replace(section, Label(first)))
          /\ \A w \in MarkerWords \ {first} : FieldOf(after, w) = FieldOf(before, w)
          /\ after.additional_notes = before.additional_notes]_vars

\* a paragraph that starts with Prevention and mentions Symptoms later went
\* to symptoms
C6_Witness ==
  /\ fpc = "loop"
  /\ section_idx = 2
  /\ sections[1] = <<"Prevention", ":", "Symptoms", ":", "a">>
  /\ Val(report).analysis.symptoms = <<"Prevention", ":", "a">>
  /\ Val(report).analysis.prevention = <<>>
  /\ Val(report).analysis.additional_notes = <<>>

\* every occurrence of old in s, left to right, replaced by new
RECURSIVE ReplaceWith(_, _, _)
ReplaceWith(s, old, new) ==
  IF Len(s) < Len(old) THEN s
  ELSE IF SubSeq(s, 1, Len(old)) = old
       THEN new \o ReplaceWith(SubSeq(s, Len(old) + 1, Len(s)), old, new)
       ELSE <<Head(s)>> \o ReplaceWith(Tail(s), old, new)

\* C7: for a text without any marker word the four fields stay empty and
\* additional_notes is the whole text, every paragraph in order with one
\* newline after it: the text with each blank-line separator turned into one
\* newline, and one newline at the end.
C7_NoMarkersAllInNotes ==
  (fpc = "done" /\ \A i \in 1..Len(analysis_text) : analysis_text[i] \notin MarkerWords) =>
    /\ \A w \in MarkerWords : FieldOf(Val(report).analysis, w) = <<>>
    /\ Val(report).analysis.additional_notes =
         ReplaceWith(analysis_text, BlankLine, <<NL>>) \o <<NL>>

\* two marker-free paragraphs, both in the notes, in order
C7_Witness ==
  /\ fpc = "done"
  /\ analysis_text = <<SP, "b", NL, "a", NL, NL, "a">>
  /\ Val(report).analysis.additional_notes = <<SP, "b", NL, "a", NL, "a", NL>>
  /\ Val(report).analysis.symptoms = <<>>

\* C8: an invocation stops at its first failing stage: with a missing image
\* only read_image_data has run, the model was not called and nothing was
\* retried; after a failed model call no record, no document and no display
\* text exist and nothing is returned.
C8_StopsAtFirstFailure ==
  \A r \in Requests :
    /\ (files[r] # <<>> /\ files[r][1] \notin ExistingImages /\ pc[r] # "generate") =>
         (pc[r] = "raised" /\ error[r] = "FileNotFoundError")
    /\ error[r] = "FileNotFoundError" =>
         /\ pc[r] = "raised"
         /\ calls[r] = <<"read_image_data">>
         /\ response[r] = None /\ report_data[r] = None /\ report_file[r] = None
         /\ formatted_text[r] = None /\ result[r] = None
    /\ error[r] = "GenerationFailed" =>
         /\ pc[r] = "raised"
         /\ calls[r] = <<"read_image_data", "generate_content">>
         /\ response[r] = None /\ report_data[r] = None /\ report_file[r] = None
         /\ formatted_text[r] = None /\ result[r] = None

\* one invocation failed on the missing image, the other on the model call,
\* while the clock moved on
C8_Witness ==
  \E r1, r2 \in Requests :
    /\ error[r1] = "FileNotFoundError"
    /\ error[r2] = "GenerationFailed"
    /\ clock = MaxClock

\* C9 as stated: when the document write fails, the display text of the same
\* response has still been produced.
C9_HtmlSurvivesPdfFailure ==
  \A r \in Requests : error[r] = "IOFailure" => formatted_text[r] # None

\* C10 as stated: two invocations that wrote a document wrote to different
\* filenames.
C10_DistinctFilenames ==
  \A r1, r2 \in Requests :
    (r1 # r2 /\ report_file[r1] # None /\ report_file[r2] # None) =>
      report_file[r1] # report_file[r2]

\* the paragraph without the marker word w and without the colon after it
RECURSIVE WithoutLabel(_, _)
WithoutLabel(s, w) ==
  IF s = <<>> THEN <<>>
  ELSE IF Head(s) = w
       THEN IF Len(s) >= 2 /\ s[2] = ":"
            THEN WithoutLabel(SubSeq(s, 3, Len(s)), w)
            ELSE WithoutLabel(Tail(s), w)
       ELSE <<Head(s)>> \o WithoutLabel(Tail(s), w)

\* C11 as stated: the value stored for a paragraph that was assigned to a
\* field is the paragraph without the matched marker label and its colon,
\* trimmed, also when the paragraph was matched by the bare marker word.
C11_LabelStripped ==
  (fpc = "loop" /\ section_idx > 1
     /\ ClassOf(sections[section_idx - 1]) \in MarkerWords) =>
    LET section == sections[section_idx - 1]
        w == ClassOf(section)
    IN FieldOf(Val(report).analysis, w) = Strip(WithoutLabel(section, w))

\* the fixed order in which format_report_text tests its labels
HtmlOrder ==
  <<"Disease Name", "Symptoms", "Causes", "Treatment", "Prevention", "Additional Notes">>

\* the word w stands in the paragraph with a colon right after it
HasLabel(s, w) == \E i \in 1..(Len(s) - 1) : s[i] = w /\ s[i + 1] = ":"

\* the first label of HtmlOrder that the paragraph holds, "" when it holds none
FirstLabel(s) ==
  LET present == {k \in 1..Len(HtmlOrder) : HasLabel(s, HtmlOrder[k])}
  IN IF present = {} THEN ""
     ELSE HtmlOrder[CHOOSE k \in present : \A j \in present : k <= j]

\* the number of left-to-right non-overlapping occurrences of sep in s
RECURSIVE CountOf(_, _)
CountOf(s, sep) ==
  IF Len(s) < Len(sep) THEN 0
  ELSE IF SubSeq(s, 1, Len(sep)) = sep
       THEN 1 + CountOf(SubSeq(s, Len(sep) + 1, Len(s)), sep)
       ELSE CountOf(Tail(s), sep)

\* the text of a block: the paragraph without its first label, trimmed
BlockContentRight(block, para) ==
  IsStripOf(block.content,
            IF FirstLabel(para) = "" THEN para
            ELSE ReplaceWith(para, Label(FirstLabel(para)), <<>>))

\* one block per paragraph, in order, each titled with its first label
BlocksAsClaimed(blocks, text, paras) ==
  /\ Len(blocks) = CountOf(text, BlankLine) + 1
  /\ Len(blocks) = Len(paras)
  /\ \A i \in 1..Len(blocks) :
       /\ blocks[i].title = FirstLabel(paras[i])
       /\ BlockContentRight(blocks[i], paras[i])

\* one block per paragraph, in order, each titled with its first label, but
\* the Disease Name paragraph an untitled block of class disease-name
BlocksAsBuilt(blocks, text, paras) ==
  /\ Len(blocks) = CountOf(text, BlankLine) + 1
  /\ Len(blocks) = Len(paras)
  /\ \A i \in 1..Len(blocks) :
       /\ blocks[i].title =
            (IF FirstLabel(paras[i]) = "Disease Name" THEN "" ELSE FirstLabel(paras[i]))
       /\ blocks[i].class = "disease-name" <=> FirstLabel(paras[i]) = "Disease Name"
       /\ BlockContentRight(blocks[i], paras[i])

\* C12 as stated: format_report_text returns one block per paragraph, in
\* paragraph order, each with the title of the first label matched in the
\* order Disease Name, Symptoms, Causes, Treatment, Prevention, Additional
\* Notes (no title without a label) and the paragraph without that label,
\* trimmed; the call changes nothing but its return value.
C12_TitledBlockPerParagraph ==
  [][(fpc = "done" /\ fpc' = "shown") =>
       /\ BlocksAsClaimed(Val(formatted'), analysis_text, sections)
       /\ UNCHANGED <<analysis_text, disease_name, sections, section_idx, report>>
       /\ UNCHANGED pipeline_vars]_vars

\* C12 amended: as stated for the labels Symptoms, Causes, Treatment,
\* Prevention and Additional Notes; a paragraph that holds the label Disease
\* Name (tested first) becomes a block of class disease-name that carries no
\* title, with the paragraph without that label, trimmed.
C12_BlockPerParagraph ==
  [][(fpc = "done" /\ fpc' = "shown") =>
       /\ BlocksAsBuilt(Val(formatted'), analysis_text, sections)
       /\ UNCHANGED <<analysis_text, disease_name, sections, section_idx, report>>
       /\ UNCHANGED pipeline_vars]_vars

\* the answer in the format of the prompt: the name block without a title,
\* then the four titled blocks
C12_Witness ==
  /\ fpc = "shown"
  /\ analysis_text =
       <<"Disease Name", ":", SP, "a">> \o BlankLine
       \o WellFormedText(<<"Symptoms", "Causes", "Treatment", "Prevention">>,
                         [w \in MarkerWords |-> <<NL, "a">>])
  /\ Val(formatted) =
       << Block("disease-name", "", <<"a">>),
          Block("report-section", "Symptoms", <<"a">>),
          Block("report-section", "Causes", <<"a">>),
          Block("report-section", "Treatment", <<"a">>),
          Block("report-section", "Prevention", <<"a">>) >>

\* a record whose fields hold a value no paragraph can produce
Probe ==
  [symptoms |-> <<"?">>, causes |-> <<"?">>, treatment |-> <<"?">>,
   prevention |-> <<"?">>, additional_notes |-> <<"?">>]

\* the field the loop body of format_report writes for a paragraph
ParserField(section) ==
  LET after == ParseSection(Probe, section)
  IN IF after.additional_notes # Probe.additional_notes THEN "notes"
     ELSE CHOOSE w \in MarkerWords : FieldOf(after, w) # FieldOf(Probe, w)

\* C13 as stated: for a paragraph without the labels Disease Name and
\* Additional Notes, format_report_text titles the block Symptoms, Causes,
\* Treatment or Prevention exactly when format_report assigns the paragraph
\* to that field, and leaves it untitled exactly when format_report appends
\* it to additional_notes.
C13_SameClassification ==
  fpc = "shown" =>
    \A i \in 1..Len(sections) :
      (~HasLabel(sections[i], "Disease Name")
         /\ ~HasLabel(sections[i], "Additional Notes")) =>
        /\ \A w \in MarkerWords :
             Val(formatted)[i].title = w <=> ParserField(sections[i]) = w
        /\ Val(formatted)[i].title = "" <=> ParserField(sections[i]) = "notes"

====
